---- MODULE Spec2Model ----
(***************************************************************************)
(* Model of the anomaly correlation engine of IncidentManager              *)
(* (src/full2.py): the monitoring loop, the metric fetch, spike detection, *)
(* gunicorn site discovery over SSM, the three-window access-log counter,  *)
(* the spike attribution scan, the detailed log fetch and the report that  *)
(* is handed to the agent.  Times are whole seconds since 1 Jan 2025 UTC;  *)
(* text that the code compares or slices (the strftime stamps handed to    *)
(* awk) is a sequence of character codes.                                  *)
(***************************************************************************)
EXTENDS Integers, Sequences, FiniteSets, TLC

VARIABLES
    pc,                      \* position of the monitoring loop
    ec2,                     \* <<state, system_status, instance_status>>
    status_response,         \* what the EC2 API answered to get_ec2_status
    cpu_per_minute,          \* list of [Timestamp, CPU]
    metric_response,         \* what CloudWatch answered to get_cpu_per_minute
    spike_time, spike_value,
    pre_spike_start_window, post_spike_end_window,
    processes,               \* get_all_gunicorn_sites: lines of the ps listing
    all_sites,               \* list of [site_name, access_log_path]
    log_counts,              \* site_name -> [before, spike, after]
    count_i,                 \* get_log_counts_for_sites: next count operation
    Spike_site, max_spike, scan_i, report_metrics, Spike_log_path,
    logs_from_Spike,
    report,                  \* list of report sections, <<>> is the text ""
    cmd,                     \* the SSM command in flight (or NoCmd)
    cmd_status,              \* its status on the SSM side
    log_file,                \* content of the file the command read on the host
    ps_listing,              \* the process listing the command printed on the host
    status, output,          \* last polled status / last invocation record
    raised,                  \* exception the last remote call caught ("" if none)
    ran,                     \* stages entered during the current cycle, in order
    issued,                  \* send_command calls made during the current cycle
    handlers,                \* Agent4.py: the calls of trigger_agent, one per POST
    threads                  \* Agent4.py: the threads started for run_agent

loop_vars == <<pc, ec2, status_response, cpu_per_minute, metric_response,
          spike_time, spike_value,
          pre_spike_start_window, post_spike_end_window, processes, all_sites,
          log_counts, count_i, Spike_site, max_spike, scan_i, report_metrics,
          Spike_log_path, logs_from_Spike, report, cmd, cmd_status, log_file,
          ps_listing, status, output, raised, ran, issued>>

webhook_vars == <<handlers, threads>>

vars == <<loop_vars, webhook_vars>>

(***************************************************************************)
(* Bounds of the model.                                                    *)
(***************************************************************************)
MaxPoints == 2       \* datapoints CloudWatch returns for one fetch
MaxLines == 2        \* lines of the ps listing
MaxLogLines == 2     \* lines of an access log on the host
MaxRequests == 2

(***************************************************************************)
(* Python values.                                                          *)
(***************************************************************************)
None == "<None>"

Abs(x) == IF x < 0 THEN -x ELSE x

Max2(a, b) == IF a >= b THEN a ELSE b

SeqsUpTo(S, n) == UNION {[1..k -> S] : k \in 0..n}

(***************************************************************************)
(* datetime, timedelta and strftime("%d/%b/%Y:%H:%M:%S").                  *)
(***************************************************************************)
IsLeap(y) == (y % 4 = 0 /\ y % 100 # 0) \/ y % 400 = 0

DaysInMonth(y, m) ==
    CASE m \in {4, 6, 9, 11} -> 30
      [] m = 2 -> IF IsLeap(y) THEN 29 ELSE 28
      [] OTHER -> 31

RECURSIVE DaysBefore(_, _)
DaysBefore(y, m) == IF m = 1 THEN 0 ELSE DaysBefore(y, m - 1) + DaysInMonth(y, m - 1)

\* datetime(2025, m, d, H, M, S) as seconds since 2025-01-01 00:00:00
DateTime(m, d, H, M, S) ==
    ((DaysBefore(2025, m) + (d - 1)) * 24 + H) * 3600 + M * 60 + S

Minutes(n) == n * 60

RECURSIVE CivilDate(_, _, _)
CivilDate(d, y, m) ==
    IF d < DaysInMonth(y, m)
    THEN [year |-> y, month |-> m, day |-> d + 1]
    ELSE CivilDate(d - DaysInMonth(y, m),
                   IF m = 12 THEN y + 1 ELSE y,
                   IF m = 12 THEN 1 ELSE m + 1)

Digit(k) == 48 + k

TwoDigits(n) == <<Digit((n \div 10) % 10), Digit(n % 10)>>

FourDigits(n) == TwoDigits(n \div 100) \o TwoDigits(n % 100)

MonthAbbr(m) ==
    CASE m = 1 -> <<74, 97, 110>>      [] m = 2 -> <<70, 101, 98>>
      [] m = 3 -> <<77, 97, 114>>      [] m = 4 -> <<65, 112, 114>>
      [] m = 5 -> <<77, 97, 121>>      [] m = 6 -> <<74, 117, 110>>
      [] m = 7 -> <<74, 117, 108>>     [] m = 8 -> <<65, 117, 103>>
      [] m = 9 -> <<83, 101, 112>>     [] m = 10 -> <<79, 99, 116>>
      [] m = 11 -> <<78, 111, 118>>    [] OTHER -> <<68, 101, 99>>

\* t.strftime("%d/%b/%Y:%H:%M:%S"): 20 characters, '/' is 47 and ':' is 58
Strftime(t) ==
    LET date == CivilDate(t \div 86400, 2025, 1)
        secs == t % 86400
    IN  TwoDigits(date.day) \o <<47>> \o MonthAbbr(date.month) \o <<47>>
        \o FourDigits(date.year) \o <<58>> \o TwoDigits(secs \div 3600)
        \o <<58>> \o TwoDigits((secs % 3600) \div 60)
        \o <<58>> \o TwoDigits(secs % 60)

(***************************************************************************)
(* awk: substr, string comparison, and the two filter programs.            *)
(***************************************************************************)
\* awk substr(s, m, n): at most n characters of s from position m
Substr(s, m, n) ==
    LET last == IF m + n - 1 < Len(s) THEN m + n - 1 ELSE Len(s)
    IN  IF m > last THEN <<>> ELSE SubSeq(s, m, last)

RECURSIVE StrLess(_, _)
\* a < b as awk compares two strings: character by character, a proper
\* prefix being smaller
StrLess(a, b) ==
    IF b = <<>> THEN FALSE
    ELSE IF a = <<>> THEN TRUE
    ELSE IF a[1] # b[1] THEN a[1] < b[1]
    ELSE StrLess(Tail(a), Tail(b))

StrLessEq(a, b) == a = b \/ StrLess(a, b)

\* field $4 of an access-log line stamped at time t: "[" and the stamp
Field4(t) == <<91>> \o Strftime(t)

\* { t = substr($4, 2, width); if (t >= start && t <= end) print }
AwkSelects(line, start_str, end_str, width) ==
    LET t == Substr(Field4(line), 2, width)
    IN  StrLessEq(start_str, t) /\ StrLessEq(t, end_str)

AwkPrint(log, start_str, end_str, width) ==
    SelectSeq(log, LAMBDA line : AwkSelects(line, start_str, end_str, width))


(***************************************************************************)
(* get_ec2_status.  A response of the EC2 API: the two describe calls      *)
(* either raise or give the instance state and the list of health statuses.*)
(***************************************************************************)
\* a lookup that would give the sentinel for every field when the list of
\* health statuses is empty
get_ec2_status_all_unknown(resp) ==
    IF resp.raises \/ resp.InstanceStatuses = <<>>
    THEN <<"unknown", "unknown", "unknown">>
    ELSE <<resp.State, resp.InstanceStatuses[1].SystemStatus,
           resp.InstanceStatuses[1].InstanceStatus>>

get_ec2_status(resp) ==
    IF resp.raises THEN <<"unknown", "unknown", "unknown">>
    ELSE IF resp.InstanceStatuses # <<>>
         THEN <<resp.State, resp.InstanceStatuses[1].SystemStatus,
                resp.InstanceStatuses[1].InstanceStatus>>
         ELSE <<resp.State, "unknown", "unknown">>

(***************************************************************************)
(* get_cpu_per_minute: sorted(Datapoints, key=Timestamp), then the list of *)
(* {Timestamp, CPU}; [] when the call raises.  sorted() is stable.         *)
(***************************************************************************)
InsertByTimestamp(sorted, dp) ==
    LET k == Cardinality({i \in DOMAIN sorted : sorted[i].Timestamp <= dp.Timestamp})
    IN  SubSeq(sorted, 1, k) \o <<dp>> \o SubSeq(sorted, k + 1, Len(sorted))

\* the datapoints left in the order of delivery
DeliveryOrder(points) == points

RECURSIVE SortedByTimestamp(_)
SortedByTimestamp(points) ==
    IF points = <<>> THEN <<>>
    ELSE InsertByTimestamp(SortedByTimestamp(SubSeq(points, 1, Len(points) - 1)),
                           points[Len(points)])

get_cpu_per_minute(resp) ==
    IF resp.raises THEN <<>>
    ELSE LET points == SortedByTimestamp(resp.Datapoints)
         IN  [i \in DOMAIN points |->
                 [Timestamp |-> points[i].Timestamp, CPU |-> points[i].Average]]

(***************************************************************************)
(* max(cpu_per_minute, key=lambda x: x["CPU"]): the scan keeps the first   *)
(* item whose key is the largest.                                          *)
(***************************************************************************)
RECURSIVE MaxScan(_, _, _)
MaxScan(items, i, best) ==
    IF i > Len(items) THEN best
    ELSE MaxScan(items, i + 1, IF items[i].CPU > best.CPU THEN items[i] ELSE best)

\* a scan that would keep the last of several largest items
RECURSIVE LastMaxScan(_, _, _)
LastMaxScan(items, i, best) ==
    IF i > Len(items) THEN best
    ELSE LastMaxScan(items, i + 1, IF items[i].CPU >= best.CPU THEN items[i] ELSE best)

LastMaxByCpu(items) == LastMaxScan(items, 2, items[1])

MaxByCpu(items) == MaxScan(items, 2, items[1])

(***************************************************************************)
(* get_all_gunicorn_sites: the regex over the lines of the ps listing.     *)
(* A line is [sock, logfile]: sock is <<site>> when the line holds a       *)
(* /var/www/<site>/...sock path, logfile is the word after                 *)
(* --access-logfile (a path, as its list of segments, "/" first when       *)
(* absolute), each <<>> when the line has none.                            *)
(***************************************************************************)
RegexMatches(line) == line.sock # <<>> /\ line.logfile # <<>>

StartsWithSlash(path) == path # <<>> /\ path[1] = "/"

\* the captured path kept as it is, relative or not
KeepCaptured(site_name, access_log) == access_log

ResolveLogPath(site_name, access_log) ==
    IF ~StartsWithSlash(access_log)
    THEN <<"/", "var", "www", site_name, "logs">> \o access_log
    ELSE access_log

\* a parse that would put the descriptor of a later line first
RECURSIVE ParseProcessesLastFirst(_)
ParseProcessesLastFirst(lines) ==
    IF lines = <<>> THEN <<>>
    ELSE LET line == Head(lines)
         IN  ParseProcessesLastFirst(Tail(lines)) \o
             (IF RegexMatches(line)
              THEN <<[site_name |-> line.sock[1],
                      access_log_path |-> ResolveLogPath(line.sock[1], line.logfile)]>>
              ELSE <<>>)

RECURSIVE ParseProcesses(_)
ParseProcesses(lines) ==
    IF lines = <<>> THEN <<>>
    ELSE LET line == Head(lines)
         IN  (IF RegexMatches(line)
              THEN <<[site_name |-> line.sock[1],
                      access_log_path |-> ResolveLogPath(line.sock[1], line.logfile)]>>
              ELSE <<>>) \o ParseProcesses(Tail(lines))

(***************************************************************************)
(* get_log_counts_for_sites: the dict of counts and the three windows.     *)
(***************************************************************************)
RECURSIVE DictKeys(_)
\* keys of {site['site_name']: ... for site in sites}: first insertion order
DictKeys(sites) ==
    IF sites = <<>> THEN <<>>
    ELSE LET front == DictKeys(SubSeq(sites, 1, Len(sites) - 1))
             name == sites[Len(sites)].site_name
         IN  IF \E i \in DOMAIN front : front[i] = name THEN front
             ELSE Append(front, name)

ZeroCounts(sites) ==
    [keys |-> DictKeys(sites),
     vals |-> [name \in {sites[i].site_name : i \in DOMAIN sites} |->
                  [before |-> 0, spike |-> 0, after |-> 0]]]

WindowNames == <<"before", "spike", "after">>

pre_spike_start(t) == t - Minutes(10)
pre_spike_end(t) == t - 1
spike_start(t) == t
\* a spike window that would run up to and including the next full minute
spike_end_next_minute(t) == t + Minutes(1)
spike_end(t) == t + Minutes(1) - 1
post_spike_start(t) == t + Minutes(1)
post_spike_end(t) == t + Minutes(11)

WindowStart(w, t) ==
    CASE w = "before" -> pre_spike_start(t)
      [] w = "spike" -> spike_start(t)
      [] OTHER -> post_spike_start(t)

WindowEnd(w, t) ==
    CASE w = "before" -> pre_spike_end(t)
      [] w = "spike" -> spike_end(t)
      [] OTHER -> post_spike_end(t)

\* count_logs cuts 19 characters of $4, fetch_logs_window cuts 20
CountWidth == 19
FetchWidth == 20

\* the three loops over sites: operation k is window (k-1) \div n, site (k-1) % n
OpWindow(k, sites) == WindowNames[((k - 1) \div Len(sites)) + 1]
OpSite(k, sites) == sites[((k - 1) % Len(sites)) + 1]

StoreCount(counts, name, w, n) ==
    [counts EXCEPT !.vals[name] =
        CASE w = "before" -> [@ EXCEPT !.before = n]
          [] w = "spike" -> [@ EXCEPT !.spike = n]
          [] OTHER -> [@ EXCEPT !.after = n]]

Cell(counts, name, w) ==
    CASE w = "before" -> counts.vals[name].before
      [] w = "spike" -> counts.vals[name].spike
      [] OTHER -> counts.vals[name].after

(***************************************************************************)
(* The SSM side.  A command is Pending, then InProgress, then ends in one  *)
(* of four statuses; its StandardOutputContent is empty until it succeeds. *)
(***************************************************************************)
NoCmd == [kind |-> "none"]

SsmTerminal == {"Success", "Failed", "Cancelled", "TimedOut"}

\* the statuses that end the polling loop of get_all_gunicorn_sites
LoopExit == {"Success", "Failed", "Cancelled"}

NoOutput == [Status |-> "", StandardOutputContent |-> <<>>]

RECURSIVE Decimal(_)
\* the decimal text of n, as wc -l prints it
Decimal(n) == IF n < 10 THEN <<Digit(n)>> ELSE Decimal(n \div 10) \o <<Digit(n % 10)>>

IsDigits(text) == text # <<>> /\ \A i \in DOMAIN text : text[i] \in 48..57

RECURSIVE DigitsValue(_)
DigitsValue(text) ==
    IF text = <<>> THEN 0
    ELSE DigitsValue(SubSeq(text, 1, Len(text) - 1)) * 10 + (text[Len(text)] - 48)

\* what the command prints on the host once it has run: the ps listing, the
\* line count of the awk selection, or the selected lines
Stdout(c, listing, log) ==
    CASE c.kind = "ps" -> listing
      [] c.kind = "count" ->
            Decimal(Len(AwkPrint(log, Strftime(c.start_time), Strftime(c.end_time),
                                 CountWidth)))
      [] c.kind = "fetch" ->
            AwkPrint(log, Strftime(c.start_time), Strftime(c.end_time), FetchWidth)
      [] OTHER -> <<>>

get_command_invocation(c, st, listing, log) ==
    [Status |-> st,
     StandardOutputContent |-> IF st = "Success" THEN Stdout(c, listing, log) ELSE <<>>]

\* int(output.get("StandardOutputContent", "0").strip() or 0) raises ValueError
\* on text that is no number
IntRaises(text) == text # <<>> /\ ~IsDigits(text)

IntOrZero(text) == IF text = <<>> THEN 0 ELSE DigitsValue(text)


\* execute_ssm_command (Agent1.py): what it returns for the status the poll
\* ended with, the output text, and the exception raised, if any
NoOutputReturned == <<"No output returned">>
ErrorExecutingCommand == <<"Error executing command">>

execute_ssm_command(exc, text) ==
    IF exc # "" THEN ErrorExecutingCommand
    ELSE IF text # <<>> THEN text ELSE NoOutputReturned

(***************************************************************************)
(* The spike attribution scan and the lookup of the log path.              *)
(***************************************************************************)
\* a magnitude that would be the signed change from before to after
site_spike_signed(counts) == counts.after - counts.before

site_spike(counts) ==
    Max2(Max2(Abs(counts.spike - counts.before), Abs(counts.after - counts.spike)),
         Abs(counts.after - counts.before))

\* next((s['access_log_path'] for s in all_sites if s['site_name'] == Spike_site), None)
RECURSIVE FirstLogPath(_, _)
FirstLogPath(sites, name) ==
    IF sites = <<>> THEN <<>>
    ELSE IF Head(sites).site_name = name THEN Head(sites).access_log_path
    ELSE FirstLogPath(Tail(sites), name)

\* truth value of a Python str-or-None
Truthy(x) == x # None /\ x # ""

\* if Spike_site and Spike_log_path
SpikeIdentified(site, path) == Truthy(site) /\ path # <<>>

ReportLine(site, counts) ==
    [site |-> site, before |-> counts.before, spike |-> counts.spike,
     after |-> counts.after, magnitude |-> site_spike(counts)]

BaseReport(st, cpu, t, v, metrics) ==
    <<[sec |-> "status", v |-> st], [sec |-> "cpu", v |-> cpu],
      [sec |-> "spike", v |-> <<t, v>>], [sec |-> "counts", v |-> metrics]>>

NoLogsFound == <<"No logs found in the window.">>
ErrorFetchingLogs == <<"Error fetching logs">>

(***************************************************************************)
(* The state after the module is loaded: no cycle has run yet.             *)
(***************************************************************************)
(***************************************************************************)
(* Agent4.py, the webhook variant.  A POST to /trigger-agent carries a     *)
(* body: a JSON object with or without the key "alerts", JSON that is no   *)
(* object, or text that is no JSON.                                        *)
(***************************************************************************)
Requests == 1..MaxRequests

Bodies ==
    {[kind |-> "object", alerts |-> "HighCPU"],
     [kind |-> "object", alerts |-> None],
     [kind |-> "array", alerts |-> None],
     [kind |-> "text", alerts |-> None]}

NoHandler == [at |-> "none", body |-> [kind |-> "text", alerts |-> None],
              alert_info |-> None, response |-> ""]

AgentTriggered == "agent triggered"
\* the answer of the framework when trigger_agent raises
InternalServerError == "500 Internal Server Error"

Init ==
    /\ pc = "status"
    /\ ec2 = <<"", "", "">>
    /\ status_response = [raises |-> FALSE, State |-> "", InstanceStatuses |-> <<>>]
    /\ cpu_per_minute = <<>>
    /\ metric_response = [raises |-> FALSE, Datapoints |-> <<>>]
    /\ spike_time = 0 /\ spike_value = 0
    /\ pre_spike_start_window = 0 /\ post_spike_end_window = 0
    /\ processes = <<>> /\ all_sites = <<>>
    /\ log_counts = ZeroCounts(<<>>)
    /\ count_i = 1
    /\ Spike_site = None /\ max_spike = 0 /\ scan_i = 1
    /\ report_metrics = <<>> /\ Spike_log_path = <<>>
    /\ logs_from_Spike = <<>>
    /\ report = <<>>
    /\ cmd = NoCmd /\ cmd_status = "" /\ log_file = <<>> /\ ps_listing = <<>>
    /\ status = "" /\ output = NoOutput /\ raised = ""
    /\ ran = <<>> /\ issued = <<>>
    /\ handlers = [r \in Requests |-> NoHandler]
    /\ threads = <<>>

status_vars == <<ec2, status_response>>
metric_vars == <<cpu_per_minute, metric_response, spike_time, spike_value,
                 pre_spike_start_window, post_spike_end_window>>
site_vars == <<processes, all_sites>>
count_vars == <<log_counts, count_i>>
scan_vars == <<Spike_site, max_spike, scan_i, report_metrics, Spike_log_path>>
ssm_vars == <<cmd, cmd_status, log_file, ps_listing, status, output, raised>>

(***************************************************************************)
(* Step 1: status and metric.                                              *)
(***************************************************************************)
\* line 317; the EC2 answer is one of E.ec2
GetEc2Status(E) ==
    /\ pc = "status"
    /\ \E resp \in E.ec2 : /\ status_response' = resp
                            /\ ec2' = get_ec2_status(resp)
    /\ pc' = "metric"
    /\ ran' = <<"status">>
    /\ issued' = <<>>
    /\ UNCHANGED <<webhook_vars, metric_vars, site_vars, count_vars, scan_vars,
                   ssm_vars, logs_from_Spike, report>>

\* an exception of line 107 that no handler would catch: the process ends
Ec2ClientEndsLoop ==
    /\ pc = "status"
    /\ pc' = "terminated"
    /\ ran' = <<"status">>
    /\ issued' = <<>>
    /\ UNCHANGED <<webhook_vars, status_vars, metric_vars, site_vars,
                   count_vars, scan_vars, ssm_vars,
                   logs_from_Spike, report>>

\* line 107 is outside the try of get_ec2_status: an exception there reaches
\* the except of the monitoring loop (line 447)
Ec2ClientRaises ==
    /\ pc = "status"
    /\ pc' = "sleep"
    /\ ran' = <<"status">>
    /\ issued' = <<>>
    /\ UNCHANGED <<webhook_vars, status_vars, metric_vars, site_vars,
                   count_vars, scan_vars, ssm_vars,
                   logs_from_Spike, report>>

\* line 321
GetCpuPerMinute(E) ==
    /\ pc = "metric"
    /\ \E resp \in E.cw : /\ metric_response' = resp
                           /\ cpu_per_minute' = get_cpu_per_minute(resp)
    /\ pc' = "check_cpu"
    /\ ran' = Append(ran, "metric")
    /\ UNCHANGED <<webhook_vars, status_vars, spike_time, spike_value,
                   pre_spike_start_window,
                   post_spike_end_window, site_vars, count_vars, scan_vars,
                   ssm_vars, logs_from_Spike, report, issued>>

\* a branch that would leave the report of the cycle before in place
NoCpuDataKeepsReport ==
    /\ pc = "check_cpu"
    /\ cpu_per_minute = <<>>
    /\ pc' = "agent"
    /\ UNCHANGED <<webhook_vars, status_vars, metric_vars, site_vars,
                   count_vars, scan_vars, ssm_vars,
                   logs_from_Spike, report, ran, issued>>

\* a branch that would go on to discovery without metric data
NoCpuDataGoesOn ==
    /\ pc = "check_cpu"
    /\ cpu_per_minute = <<>>
    /\ report' = <<>>
    /\ pc' = "disc_send"
    /\ UNCHANGED <<webhook_vars, status_vars, metric_vars, site_vars,
                   count_vars, scan_vars, ssm_vars,
                   logs_from_Spike, ran, issued>>

\* lines 329-331
NoCpuData ==
    /\ pc = "check_cpu"
    /\ cpu_per_minute = <<>>
    /\ report' = <<>>
    /\ pc' = "agent"
    /\ UNCHANGED <<webhook_vars, status_vars, metric_vars, site_vars,
                   count_vars, scan_vars, ssm_vars,
                   logs_from_Spike, ran, issued>>

\* lines 337-347
DetectSpike ==
    /\ pc = "check_cpu"
    /\ cpu_per_minute # <<>>
    /\ LET spike == MaxByCpu(cpu_per_minute)
       IN  /\ spike_time' = spike.Timestamp
           /\ spike_value' = spike.CPU
           /\ pre_spike_start_window' = spike.Timestamp - Minutes(10)
           /\ post_spike_end_window' = spike.Timestamp + Minutes(10)
    /\ pc' = "disc_send"
    /\ ran' = Append(ran, "detect")
    /\ UNCHANGED <<webhook_vars, status_vars, cpu_per_minute, metric_response,
                   site_vars, count_vars, scan_vars,
                   ssm_vars, logs_from_Spike, report, issued>>


(***************************************************************************)
(* The SSM service and the host.  send_command leaves a Pending command;   *)
(* the command advances on its own; when it succeeds it has read the       *)
(* process table (ps) or the access log (awk) as the host held them then.  *)
(* The command is forgotten when the function that sent it returns.        *)
(***************************************************************************)
SortedLogs(times, n) ==
    {log \in SeqsUpTo(times, n) :
        \A i \in DOMAIN log : \A j \in DOMAIN log : i < j => log[i] <= log[j]}

\* access logs the host may hold: lines stamped around the spike
HostLogs(E, t) == SortedLogs({t + o : o \in E.offsets}, E.loglen)

Submit(c) ==
    /\ cmd' = c
    /\ cmd_status' = "Pending"
    /\ log_file' = <<>>
    /\ ps_listing' = <<>>

Release ==
    /\ cmd' = NoCmd
    /\ cmd_status' = ""
    /\ log_file' = <<>>
    /\ ps_listing' = <<>>

\* the engine sleeps between send_command and get_command_invocation
\* (lines 174, 179, 242, 303): the command advances meanwhile
Waiting == pc \in {"disc_poll", "count_read", "fetch_read"}

SsmAdvance(E) ==
    /\ Waiting
    /\ cmd # NoCmd
    /\ \/ /\ cmd_status = "Pending"
          /\ cmd_status' = "InProgress"
          /\ UNCHANGED <<log_file, ps_listing>>
       \/ /\ cmd_status = "InProgress"
          /\ cmd_status' \in {"Failed", "Cancelled", "TimedOut"}
          /\ UNCHANGED <<log_file, ps_listing>>
       \/ /\ cmd_status = "InProgress"
          /\ cmd_status' = "Success"
          /\ IF cmd.kind = "ps"
             THEN ps_listing' \in E.listings /\ log_file' = <<>>
             ELSE log_file' \in HostLogs(E, spike_time) /\ ps_listing' = <<>>
    /\ UNCHANGED <<pc, webhook_vars, status_vars, metric_vars, site_vars,
                   count_vars, scan_vars,
                   logs_from_Spike, report, cmd, status, output, raised, ran, issued>>

(***************************************************************************)
(* Step 3: get_all_gunicorn_sites.                                         *)
(***************************************************************************)
\* a get_all_gunicorn_sites without its try: a raise of send_command would
\* leave the function and reach the handler of the loop
DiscSendUnguarded ==
    /\ pc = "disc_send"
    /\ ran' = Append(ran, "discovery")
    /\ issued' = Append(issued, [kind |-> "ps"])
    /\ \/ /\ Submit([kind |-> "ps"])
          /\ status' = ""
          /\ raised' = ""
          /\ pc' = "disc_poll"
          /\ UNCHANGED processes
       \/ /\ raised' = "send_command"
          /\ pc' = "sleep"
          /\ UNCHANGED <<cmd, cmd_status, log_file, ps_listing, status, processes>>
    /\ UNCHANGED <<webhook_vars, status_vars, metric_vars, all_sites,
                   count_vars, scan_vars,
                   logs_from_Spike, report, output>>

\* lines 163-177
DiscSend ==
    /\ pc = "disc_send"
    /\ ran' = Append(ran, "discovery")
    /\ issued' = Append(issued, [kind |-> "ps"])
    /\ \/ /\ Submit([kind |-> "ps"])
          /\ status' = ""
          /\ raised' = ""
          /\ pc' = "disc_poll"
          /\ UNCHANGED processes
       \/ /\ raised' = "send_command"
          /\ processes' = <<>>
          /\ pc' = "parse"
          /\ UNCHANGED <<cmd, cmd_status, log_file, ps_listing, status>>
    /\ UNCHANGED <<webhook_vars, status_vars, metric_vars, all_sites,
                   count_vars, scan_vars,
                   logs_from_Spike, report, output>>

\* the loop guard of line 178
KeepsPolling(st) == st \notin LoopExit

\* lines 178-181: one more round of the polling loop
DiscPoll ==
    /\ pc = "disc_poll"
    /\ KeepsPolling(status)
    /\ \/ /\ output' = get_command_invocation(cmd, cmd_status, ps_listing, log_file)
          /\ status' = output'.Status
          /\ UNCHANGED <<pc, processes, cmd, cmd_status, log_file, ps_listing, raised>>
       \/ /\ raised' = "get_command_invocation"
          /\ processes' = <<>>
          /\ pc' = "parse"
          /\ UNCHANGED <<status, output, cmd, cmd_status, log_file, ps_listing>>
    /\ UNCHANGED <<webhook_vars, status_vars, metric_vars, all_sites,
                   count_vars, scan_vars,
                   logs_from_Spike, report, ran, issued>>

\* lines 183-187: the loop has ended
DiscExit ==
    /\ pc = "disc_poll"
    /\ ~KeepsPolling(status)
    /\ processes' = IF status = "Success" THEN output.StandardOutputContent ELSE <<>>
    /\ pc' = "parse"
    /\ UNCHANGED <<webhook_vars, status_vars, metric_vars, all_sites,
                   count_vars, scan_vars, cmd,
                   cmd_status, log_file, ps_listing, logs_from_Spike, report,
                   status, output, raised, ran, issued>>

\* lines 192-210 and 353: the function returns, its locals are gone
ParseSites ==
    /\ pc = "parse"
    /\ all_sites' = ParseProcesses(processes)
    /\ pc' = "check_sites"
    /\ processes' = <<>>
    /\ status' = ""
    /\ output' = NoOutput
    /\ raised' = ""
    /\ Release
    /\ UNCHANGED <<webhook_vars, status_vars, metric_vars, count_vars,
                   scan_vars, logs_from_Spike,
                   report, ran, issued>>

\* lines 355-357
NoSites ==
    /\ pc = "check_sites"
    /\ all_sites = <<>>
    /\ report' = <<>>
    /\ pc' = "agent"
    /\ UNCHANGED <<webhook_vars, status_vars, metric_vars, site_vars,
                   count_vars, scan_vars, ssm_vars,
                   logs_from_Spike, ran, issued>>

(***************************************************************************)
(* Step 4: get_log_counts_for_sites.                                       *)
(***************************************************************************)
\* lines 359 and 226
StartCounting ==
    /\ pc = "check_sites"
    /\ all_sites # <<>>
    /\ log_counts' = ZeroCounts(all_sites)
    /\ count_i' = 1
    /\ pc' = "count_send"
    /\ ran' = Append(ran, "count")
    /\ UNCHANGED <<webhook_vars, status_vars, metric_vars, site_vars, scan_vars, ssm_vars,
                   logs_from_Spike, report, issued>>

\* a count_logs that would report a failure with the sentinel -1
CountOrSentinel(exc, text) == IF exc # "" THEN -1 ELSE IntOrZero(text)

\* the value count_logs returns: 0 when anything raised (lines 244-247)
CountResult(exc, text) == IF exc # "" THEN 0 ELSE IntOrZero(text)

\* lines 229-242
CountSend ==
    /\ pc = "count_send"
    /\ LET c == [kind |-> "count",
                 path |-> OpSite(count_i, all_sites).access_log_path,
                 start_time |-> WindowStart(OpWindow(count_i, all_sites), spike_time),
                 end_time |-> WindowEnd(OpWindow(count_i, all_sites), spike_time)]
       IN  /\ issued' = Append(issued, c)
           /\ \/ /\ Submit(c)
                 /\ pc' = "count_read"
                 /\ UNCHANGED raised
              \/ /\ raised' = "send_command"
                 /\ pc' = "count_return"
                 /\ UNCHANGED <<cmd, cmd_status, log_file, ps_listing>>
    /\ UNCHANGED <<webhook_vars, status_vars, metric_vars, site_vars,
                   count_vars, scan_vars,
                   logs_from_Spike, report, status, output, ran>>

\* lines 243-244: one read after the sleep of 2 seconds, no look at Status;
\* E.noise is text a shell may print in place of the count
CountRead(E) ==
    /\ pc = "count_read"
    /\ \/ \E text \in {get_command_invocation(cmd, cmd_status, ps_listing,
                                              log_file).StandardOutputContent}
                      \cup (IF cmd_status = "Success" THEN E.noise ELSE {}) :
             /\ output' = [Status |-> cmd_status, StandardOutputContent |-> text]
             /\ raised' = IF IntRaises(text) THEN "ValueError" ELSE ""
       \/ /\ raised' = "get_command_invocation"
          /\ UNCHANGED output
    /\ pc' = "count_return"
    /\ UNCHANGED <<webhook_vars, status_vars, metric_vars, site_vars,
                   count_vars, scan_vars, cmd,
                   cmd_status, log_file, ps_listing, logs_from_Spike, report,
                   status, ran, issued>>

\* count_logs returns (lines 244/247) into the assignment of lines 259/263/267;
\* after the last one the scan starts (lines 366-375)
CountReturn ==
    /\ pc = "count_return"
    /\ log_counts' = StoreCount(log_counts, OpSite(count_i, all_sites).site_name,
                                OpWindow(count_i, all_sites),
                                CountResult(raised, output.StandardOutputContent))
    /\ count_i' = count_i + 1
    /\ output' = NoOutput
    /\ raised' = ""
    /\ IF count_i = 3 * Len(all_sites)
       THEN /\ pc' = "scan"
            /\ Spike_site' = None
            /\ max_spike' = 0
            /\ scan_i' = 1
            /\ report_metrics' = <<>>
            /\ ran' = Append(ran, "attribution")
            /\ UNCHANGED Spike_log_path
       ELSE /\ pc' = "count_send"
            /\ UNCHANGED <<scan_vars, ran>>
    /\ Release
    /\ UNCHANGED <<webhook_vars, status_vars, metric_vars, site_vars, status,
                   logs_from_Spike, report,
                   issued>>

(***************************************************************************)
(* Step 4b: the scan for the site with the largest spike magnitude.        *)
(***************************************************************************)
\* a test that would let a later site with the same magnitude take over
ExceedsOrEquals(magnitude, best) == magnitude >= best

\* a test that would look at the magnitude alone
ExceedsZero(magnitude, best) == magnitude > 0

\* the test of line 389
Exceeds(magnitude, best) == magnitude > best

\* lines 376-402: one iteration over log_counts.items()
ScanStep ==
    /\ pc = "scan"
    /\ scan_i <= Len(log_counts.keys)
    /\ LET site == log_counts.keys[scan_i]
           counts == log_counts.vals[site]
       IN  /\ IF Exceeds(site_spike(counts), max_spike)
              THEN max_spike' = site_spike(counts) /\ Spike_site' = site
              ELSE UNCHANGED <<max_spike, Spike_site>>
           /\ report_metrics' = Append(report_metrics, ReportLine(site, counts))
    /\ scan_i' = scan_i + 1
    /\ UNCHANGED <<pc, webhook_vars, status_vars, metric_vars, site_vars,
                   count_vars, Spike_log_path,
                   ssm_vars, logs_from_Spike, report, ran, issued>>

\* lines 405-422
ScanEnd ==
    /\ pc = "scan"
    /\ scan_i > Len(log_counts.keys)
    /\ Spike_log_path' = FirstLogPath(all_sites, Spike_site)
    /\ report' = BaseReport(ec2, cpu_per_minute, spike_time, spike_value, report_metrics)
    /\ pc' = "branch"
    /\ UNCHANGED <<webhook_vars, status_vars, metric_vars, site_vars,
                   count_vars, Spike_site, max_spike,
                   scan_i, report_metrics, ssm_vars, logs_from_Spike, ran, issued>>

\* lines 424-428
Identified ==
    /\ pc = "branch"
    /\ SpikeIdentified(Spike_site, Spike_log_path)
    /\ report' = Append(report, [sec |-> "culprit", v |-> <<Spike_site, max_spike>>])
    /\ pc' = "fetch_send"
    /\ UNCHANGED <<webhook_vars, status_vars, metric_vars, site_vars,
                   count_vars, scan_vars, ssm_vars,
                   logs_from_Spike, ran, issued>>

\* lines 434-436
NotIdentified ==
    /\ pc = "branch"
    /\ ~SpikeIdentified(Spike_site, Spike_log_path)
    /\ report' = Append(report, [sec |-> "no_culprit", v |-> <<>>])
    /\ pc' = "agent"
    /\ UNCHANGED <<webhook_vars, status_vars, metric_vars, site_vars,
                   count_vars, scan_vars, ssm_vars,
                   logs_from_Spike, ran, issued>>

(***************************************************************************)
(* Step 5: fetch_logs_window.                                              *)
(***************************************************************************)
\* the window the monitoring loop hands to fetch_logs_window (line 431)
FetchStart == pre_spike_start_window
FetchEnd == post_spike_end_window

\* lines 431 and 283-303
FetchSend ==
    /\ pc = "fetch_send"
    /\ ran' = Append(ran, "fetch")
    /\ LET c == [kind |-> "fetch", path |-> Spike_log_path,
                 start_time |-> FetchStart, end_time |-> FetchEnd]
       IN  /\ issued' = Append(issued, c)
           /\ \/ /\ Submit(c)
                 /\ pc' = "fetch_read"
                 /\ UNCHANGED raised
              \/ /\ raised' = "send_command"
                 /\ pc' = "fetch_return"
                 /\ UNCHANGED <<cmd, cmd_status, log_file, ps_listing>>
    /\ UNCHANGED <<webhook_vars, status_vars, metric_vars, site_vars,
                   count_vars, scan_vars,
                   logs_from_Spike, report, status, output>>

\* line 304: one read after the sleep of 2 seconds
FetchRead ==
    /\ pc = "fetch_read"
    /\ \/ /\ output' = get_command_invocation(cmd, cmd_status, ps_listing, log_file)
          /\ UNCHANGED raised
       \/ /\ raised' = "get_command_invocation"
          /\ UNCHANGED output
    /\ pc' = "fetch_return"
    /\ UNCHANGED <<webhook_vars, status_vars, metric_vars, site_vars,
                   count_vars, scan_vars, cmd,
                   cmd_status, log_file, ps_listing, logs_from_Spike, report,
                   status, ran, issued>>

\* a fetch_logs_window without the placeholder for an empty output
FetchResultRaw(exc, logs) == IF exc # "" THEN ErrorFetchingLogs ELSE logs

\* lines 305-308: what fetch_logs_window returns
FetchResult(exc, logs) ==
    IF exc # "" THEN ErrorFetchingLogs
    ELSE IF logs # <<>> THEN logs ELSE NoLogsFound

\* fetch_logs_window returns into line 431; line 432 adds it to the report
FetchReturn ==
    /\ pc = "fetch_return"
    /\ logs_from_Spike' = FetchResult(raised, output.StandardOutputContent)
    /\ report' = Append(report, [sec |-> "logs", v |-> <<Spike_site, logs_from_Spike'>>])
    /\ output' = NoOutput
    /\ raised' = ""
    /\ pc' = "agent"
    /\ Release
    /\ UNCHANGED <<webhook_vars, status_vars, metric_vars, site_vars,
                   count_vars, scan_vars, status,
                   ran, issued>>

(***************************************************************************)
(* Step 6: the report goes to the agent; then the loop sleeps.             *)
(***************************************************************************)
\* lines 441-445: the call returns or raises, and the raise is caught
AgentCall ==
    /\ pc = "agent"
    /\ ran' = Append(ran, "agent")
    /\ pc' = "sleep"
    /\ UNCHANGED <<webhook_vars, status_vars, metric_vars, site_vars,
                   count_vars, scan_vars, ssm_vars,
                   logs_from_Spike, report, issued>>

\* a loop driven by a timer: the next cycle would start when the period is
\* over, whether the agent call has returned or not
SleepTimerDriven ==
    /\ pc \in {"sleep", "agent"}
    /\ pc' = "status"
    /\ UNCHANGED <<webhook_vars, status_vars, metric_vars, site_vars,
                   count_vars, scan_vars, ssm_vars,
                   logs_from_Spike, report, ran, issued>>

\* lines 450-451 and back to line 314
Sleep ==
    /\ pc = "sleep"
    /\ pc' = "status"
    /\ UNCHANGED <<webhook_vars, status_vars, metric_vars, site_vars,
                   count_vars, scan_vars, ssm_vars,
                   logs_from_Spike, report, ran, issued>>

(***************************************************************************)
(* Agent4.py lines 372-386.  trigger_agent is a coroutine of the one event *)
(* loop of uvicorn: it gives the loop up at the await of line 383 only, so *)
(* lines 384-386 of one call are not interleaved with another call; the    *)
(* threads of run_agent run beside the loop.                               *)
(***************************************************************************)
\* no call of trigger_agent is between its await and its return
LoopFree == \A r \in Requests : handlers[r].at \notin {"get", "start", "return"}

\* a POST arrives and trigger_agent runs up to the await of line 383
Post(r) ==
    /\ handlers[r].at = "none"
    /\ LoopFree
    /\ \E b \in Bodies : handlers' = [handlers EXCEPT ![r].at = "json", ![r].body = b]
    /\ UNCHANGED <<loop_vars, threads>>

\* line 383: request.json() returns the payload, or raises on text that is
\* no JSON and trigger_agent ends with that exception
RequestJson(r) ==
    /\ handlers[r].at = "json"
    /\ LoopFree
    /\ handlers' = IF handlers[r].body.kind = "text"
                   THEN [handlers EXCEPT ![r].at = "done",
                                         ![r].response = InternalServerError]
                   ELSE [handlers EXCEPT ![r].at = "get"]
    /\ UNCHANGED <<loop_vars, threads>>

\* payload.get("alerts", "No alert info received")
PayloadGet(body) == IF body.alerts = None THEN "No alert info received" ELSE body.alerts

\* line 384: a payload that is no dict has no get
GetAlertInfo(r) ==
    /\ handlers[r].at = "get"
    /\ handlers' = IF handlers[r].body.kind = "object"
                   THEN [handlers EXCEPT ![r].at = "start",
                                         ![r].alert_info = PayloadGet(handlers[r].body)]
                   ELSE [handlers EXCEPT ![r].at = "done",
                                         ![r].response = InternalServerError]
    /\ UNCHANGED <<loop_vars, threads>>

\* line 385: threading.Thread(target=run_agent, args=(str(alert_info),)).start()
StartThread(r) ==
    /\ handlers[r].at = "start"
    /\ threads' = Append(threads, [request |-> r, args |-> handlers[r].alert_info,
                                   at |-> "agent"])
    /\ handlers' = [handlers EXCEPT ![r].at = "return"]
    /\ UNCHANGED loop_vars

\* line 386
ReturnTriggered(r) ==
    /\ handlers[r].at = "return"
    /\ handlers' = [handlers EXCEPT ![r].at = "done", ![r].response = AgentTriggered]
    /\ UNCHANGED <<loop_vars, threads>>

\* lines 374-376: the agent is built and called, and returns
AgentReturns(i) ==
    /\ threads[i].at = "agent"
    /\ threads' = [threads EXCEPT ![i].at = "end"]
    /\ UNCHANGED <<loop_vars, handlers>>

\* lines 374-376 and 378: building or calling the agent raises
AgentRaises(i) ==
    /\ threads[i].at = "agent"
    /\ threads' = [threads EXCEPT ![i].at = "except"]
    /\ UNCHANGED <<loop_vars, handlers>>

\* line 379: the error is printed and run_agent returns
PrintError(i) ==
    /\ threads[i].at = "except"
    /\ threads' = [threads EXCEPT ![i].at = "end"]
    /\ UNCHANGED <<loop_vars, handlers>>

Webhook ==
    \/ \E r \in Requests :
          Post(r) \/ RequestJson(r) \/ GetAlertInfo(r) \/ StartThread(r) \/ ReturnTriggered(r)
    \/ \E i \in DOMAIN threads : AgentReturns(i) \/ AgentRaises(i) \/ PrintError(i)

(***************************************************************************)
(* A run of the monitoring loop against an environment E: the answers the  *)
(* EC2 API, CloudWatch, the process table and the access logs may give.    *)
(***************************************************************************)
Cycle(E) ==
    \/ GetEc2Status(E) \/ Ec2ClientRaises \/ GetCpuPerMinute(E)
    \/ NoCpuData \/ DetectSpike
    \/ DiscSend \/ DiscPoll \/ DiscExit \/ ParseSites \/ NoSites
    \/ StartCounting \/ CountSend \/ CountRead(E) \/ CountReturn
    \/ ScanStep \/ ScanEnd \/ Identified \/ NotIdentified
    \/ FetchSend \/ FetchRead \/ FetchReturn
    \/ AgentCall
    \/ SsmAdvance(E)

Run(E) == Cycle(E) \/ Sleep

(***************************************************************************)
(* Environments.                                                           *)
(***************************************************************************)
Ec2Answers ==
    {[raises |-> TRUE, State |-> "", InstanceStatuses |-> <<>>],
     [raises |-> FALSE, State |-> "running",
      InstanceStatuses |-> <<[SystemStatus |-> "ok", InstanceStatus |-> "ok"]>>],
     [raises |-> FALSE, State |-> "stopped", InstanceStatuses |-> <<>>]}

\* the minute of the k-th datapoint: 15 Jan 2025 12:30 UTC onwards
MetricTime(k) == DateTime(1, 15, 12, 30, 0) + Minutes(k)

\* a spike five minutes before the month ends
MonthEnd == DateTime(1, 31, 23, 55, 0)

\* CloudWatch gives one datapoint per period, in any order
Datapoints(times, values, n) ==
    {d \in SeqsUpTo([Timestamp : times, Average : values], n) :
        \A i \in DOMAIN d : \A j \in DOMAIN d : i # j => d[i].Timestamp # d[j].Timestamp}

CwAnswers(times, values, n) ==
    {[raises |-> TRUE, Datapoints |-> <<>>]}
    \cup {[raises |-> FALSE, Datapoints |-> d] : d \in Datapoints(times, values, n)}

AbsLog(name) == <<"/", "srv", name>>

ShopLine == [sock |-> <<"shop">>, logfile |-> AbsLog("shop.log")]
ShopRelLine == [sock |-> <<"shop">>, logfile |-> <<"access.log">>]
BlogLine == [sock |-> <<"blog">>, logfile |-> AbsLog("blog.log")]
\* gunicorn bound to /var/www//app.sock: the regex captures the empty name
RootLine == [sock |-> <<"">>, logfile |-> AbsLog("app.log")]
\* gunicorn bound to a TCP port: no .sock path
TcpLine == [sock |-> <<>>, logfile |-> AbsLog("tcp.log")]

PsLines == {ShopLine, ShopRelLine, BlogLine, RootLine, TcpLine}

\* one healthy instance, one datapoint, one site, one log line in the spike minute
SmallEnv ==
    [ec2 |-> Ec2Answers,
     cw |-> CwAnswers({MetricTime(0)}, {85}, 1),
     listings |-> SeqsUpTo({ShopLine}, 1),
     offsets |-> {30},
     loglen |-> 1,
     noise |-> {<<63>>}]

DetectEnv ==
    [SmallEnv EXCEPT
        !.cw = CwAnswers({MetricTime(k) : k \in 0..(MaxPoints - 1)}, {10, 85}, MaxPoints)]

DiscoveryEnv == [SmallEnv EXCEPT !.listings = SeqsUpTo(PsLines, MaxLines)]

CountEnv ==
    [SmallEnv EXCEPT
        !.cw = CwAnswers({MetricTime(0), MonthEnd}, {85}, 1),
        !.offsets = {-Minutes(10), -1, 0, 5, 30, Minutes(1), Minutes(3),
                     Minutes(10) + 30, Minutes(11), Minutes(11) + 5},
        !.loglen = MaxLogLines]

AttributionEnv ==
    [SmallEnv EXCEPT
        !.ec2 = {[raises |-> FALSE, State |-> "running",
                  InstanceStatuses |-> <<[SystemStatus |-> "ok", InstanceStatus |-> "ok"]>>]},
        !.listings = [1..2 -> {ShopLine, BlogLine, RootLine}],
        !.offsets = {-Minutes(5), 30, Minutes(5)},
        !.loglen = MaxLogLines]

(***************************************************************************)
(* Specifications.  Spec is the monitoring loop, cycle after cycle, in the *)
(* small environment.  The others are the first cycle, up to the sleep of  *)
(* line 451, in an environment that varies one kind of input.              *)
(***************************************************************************)
Next == Run(SmallEnv)

Spec == Init /\ [][Next]_vars

DetectSpec == Init /\ [][Cycle(DetectEnv)]_vars

DiscoverySpec == Init /\ [][Cycle(DiscoveryEnv)]_vars

CountSpec == Init /\ [][Cycle(CountEnv)]_vars

AttributionSpec == Init /\ [][Cycle(AttributionEnv)]_vars

\* the webhook variant serving up to MaxRequests POSTs
WebhookSpec == Init /\ [][Webhook]_vars

(***************************************************************************)
(* Properties.                                                             *)
(***************************************************************************)
Range(seq) == {seq[i] : i \in DOMAIN seq}

SetMax(S) == CHOOSE m \in S : \A x \in S : m >= x

\* the largest absolute difference between any two of the three counts
Magnitude(counts) ==
    SetMax({Abs(counts.spike - counts.before), Abs(counts.after - counts.spike),
            Abs(counts.after - counts.before)})

SiteNames == {all_sites[i].site_name : i \in DOMAIN all_sites}

MagnitudeOf(name) == Magnitude(log_counts.vals[name])

LargestMagnitude == IF all_sites = <<>> THEN 0 ELSE SetMax({MagnitudeOf(n) : n \in SiteNames})

\* the scan of this cycle has processed every service
ScanFinished == "attribution" \in Range(ran) /\ pc # "scan"

\* C1: each service's magnitude is the largest of the three pairwise absolute
\* differences of its counts; the scan ends with the largest magnitude of all
\* services, and, when that is positive, with the service that reaches it
\* first in discovery order (A=10/10/10 has magnitude 0, B=5/50/6 has 45).
C1_AttributesFirstLargest ==
    ScanFinished =>
        LET largest == LargestMagnitude
        IN  /\ site_spike([before |-> 10, spike |-> 10, after |-> 10]) = 0
            /\ site_spike([before |-> 5, spike |-> 50, after |-> 6]) = 45
            /\ \A i \in DOMAIN report_metrics :
                  report_metrics[i].magnitude = MagnitudeOf(report_metrics[i].site)
            /\ {report_metrics[i].site : i \in DOMAIN report_metrics} = SiteNames
            /\ max_spike = largest
            /\ largest > 0 =>
                  /\ Spike_site \in SiteNames
                  /\ MagnitudeOf(Spike_site) = largest
                  /\ \A i \in DOMAIN all_sites :
                        MagnitudeOf(all_sites[i].site_name) = largest
                           => \E j \in 1..i : all_sites[j].site_name = Spike_site

\* two services tie on a positive largest magnitude and the first one is kept
C1_Witness ==
    /\ ScanFinished
    /\ Len(log_counts.keys) = 2
    /\ MagnitudeOf(log_counts.keys[1]) = MagnitudeOf(log_counts.keys[2])
    /\ MagnitudeOf(log_counts.keys[1]) > 0
    /\ Spike_site = log_counts.keys[1]

\* the spike of this cycle has been taken from cpu_per_minute
SpikeDetected == "detect" \in Range(ran)

\* C2: the metric sequence is in timestamp order and the detected spike is a
\* point of it whose value no point exceeds and which no earlier point equals.
C2_SpikeIsFirstMaximum ==
    SpikeDetected =>
        /\ \A j \in DOMAIN cpu_per_minute : \A k \in DOMAIN cpu_per_minute :
              j < k => cpu_per_minute[j].Timestamp <= cpu_per_minute[k].Timestamp
        /\ \E i \in DOMAIN cpu_per_minute :
              /\ cpu_per_minute[i].Timestamp = spike_time
              /\ cpu_per_minute[i].CPU = spike_value
              /\ \A j \in DOMAIN cpu_per_minute : cpu_per_minute[j].CPU <= spike_value
              /\ \A j \in 1..(i - 1) : cpu_per_minute[j].CPU < spike_value

\* two points share the largest value and the earlier one is the spike
C2_Witness ==
    /\ SpikeDetected
    /\ Len(cpu_per_minute) = 2
    /\ cpu_per_minute[1].CPU = cpu_per_minute[2].CPU
    /\ cpu_per_minute[1].Timestamp < cpu_per_minute[2].Timestamp
    /\ spike_time = cpu_per_minute[1].Timestamp

\* the count command in flight has succeeded on the host and its output has
\* been read without an exception
CountReadOfSuccess ==
    /\ pc = "count_return"
    /\ raised = ""
    /\ output.Status = "Success"
    /\ output.StandardOutputContent = Stdout(cmd, ps_listing, log_file)

\* the windows whose count command selects a line stamped t
CountedIn(t) ==
    {w \in Range(WindowNames) :
        AwkSelects(t, Strftime(WindowStart(w, spike_time)),
                   Strftime(WindowEnd(w, spike_time)), CountWidth)}

\* C3: every line of the log stamped within [spike_time - 10 min,
\* spike_time + 11 min] is counted by exactly one of the three count commands,
\* and a line stamped within the spike minute by the one of the spike window.
C3_WindowsPartition ==
    CountReadOfSuccess =>
        \A i \in DOMAIN log_file :
            LET t == log_file[i]
            IN  /\ (pre_spike_start(spike_time) <= t /\ t <= post_spike_end(spike_time))
                      => Cardinality(CountedIn(t)) = 1
                /\ (spike_start(spike_time) <= t /\ t <= spike_end(spike_time))
                      => CountedIn(t) = {"spike"}

\* C4: the number a count command returns is the number of lines of the log
\* whose time lies in the closed interval of its window, also when the window
\* crosses midnight at the end of a month.
C4_CountsEqualIntervalCounts ==
    CountReadOfSuccess =>
        CountResult(raised, output.StandardOutputContent)
            = Cardinality({i \in DOMAIN log_file :
                              cmd.start_time <= log_file[i] /\ log_file[i] <= cmd.end_time})

FetchesIssued == {i \in DOMAIN issued : issued[i].kind = "fetch"}

\* C5: the one detailed read of a cycle is issued for the log path of the
\* attributed service over [spike_time - 10 min, spike_time + 11 min], the
\* pre_spike_start and post_spike_end of the window counter.
C5_FetchCoversCountedRange ==
    /\ Cardinality(FetchesIssued) <= 1
    /\ \A i \in FetchesIssued :
          /\ issued[i].path = FirstLogPath(all_sites, Spike_site)
          /\ issued[i].start_time = pre_spike_start(spike_time)
          /\ issued[i].end_time = post_spike_end(spike_time)

\* the report names an attributed service
Attributed == \E i \in DOMAIN report : report[i].sec = "culprit"

\* the cycle is past the branch of line 424
AfterAttribution == "attribution" \in Range(ran) /\ pc \notin {"scan", "branch"}

\* the cycle found no service and went straight to the agent
NoServiceFound ==
    "discovery" \in Range(ran) /\ pc \in {"agent", "sleep"} /\ all_sites = <<>>

\* C6: after the attribution stage no service is attributed exactly when every
\* discovered service has magnitude 0 (none discovered included), and an
\* attributed service has a positive magnitude.
C6_AbsentIffAllZero ==
    /\ NoServiceFound => ~Attributed
    /\ AfterAttribution =>
          /\ ~Attributed <=> LargestMagnitude = 0
          /\ Attributed => (max_spike > 0 /\ MagnitudeOf(Spike_site) > 0)

\* the cell the count operation in progress is for
CountCell == <<OpSite(count_i, all_sites).site_name, OpWindow(count_i, all_sites)>>

\* C7: when count_logs returns, the cell it was called for gets 0 if the
\* operation failed (send or read raised, or the output is no number) and the
\* number read otherwise, every other cell keeps its value; a cycle that
\* counted ends only after the agent was called with a report.
C7_CountFailureIsolated ==
    /\ [][pc = "count_return" =>
            /\ raised # "" => Cell(log_counts', CountCell[1], CountCell[2]) = 0
            /\ (raised = "" /\ IsDigits(output.StandardOutputContent))
                  => Cell(log_counts', CountCell[1], CountCell[2])
                        = DigitsValue(output.StandardOutputContent)
            /\ \A n \in Range(log_counts.keys) : \A w \in Range(WindowNames) :
                  <<n, w>> # CountCell
                     => Cell(log_counts', n, w) = Cell(log_counts, n, w)
            /\ pc' \in {"count_send", "scan"}]_vars
    /\ []((pc = "sleep" /\ "count" \in Range(ran))
             => ("agent" \in Range(ran) /\ report # <<>>))

\* a count operation has failed while another cell already holds a count
C7_Witness ==
    /\ pc = "count_return"
    /\ raised # ""
    /\ \E n \in Range(log_counts.keys) : \E w \in Range(WindowNames) :
          <<n, w>> # CountCell /\ Cell(log_counts, n, w) > 0

\* C8: discovery, counting and the detailed fetch use the output of a command
\* only once they have seen it in a terminal status.
C8_OutputReadAfterTerminal ==
    /\ (pc = "parse" /\ raised = "") => status \in SsmTerminal
    /\ (pc \in {"count_return", "fetch_return"} /\ raised = "")
          => output.Status \in SsmTerminal

\* C9: once the polled command has ended, timed out included, the polling
\* loop takes no further round.
C9_PollingEndsWithCommand ==
    (pc = "disc_poll" /\ status \in SsmTerminal) => ~KeepsPolling(status)

SpikeStages == {"detect", "discovery", "count", "attribution", "fetch"}

SpikeSections == {"spike", "counts", "culprit", "no_culprit", "logs"}

\* the metric fetch of this cycle gave nothing and the cycle is past line 331
EmptyMetricPath ==
    "metric" \in Range(ran) /\ cpu_per_minute = <<>> /\ pc \in {"agent", "sleep"}

\* C10: a cycle whose metric fetch gives an empty sequence runs none of the
\* spike-dependent stages, sends no remote command, and its report holds no
\* spike-related section.
C10_EmptyMetricsSkipSpikeStages ==
    EmptyMetricPath =>
        /\ Range(ran) \cap SpikeStages = {}
        /\ issued = <<>>
        /\ \A i \in DOMAIN report : report[i].sec \notin SpikeSections

\* a later cycle, after one that did find a spike, ends on the empty path
C10_Witness ==
    /\ EmptyMetricPath
    /\ pc = "sleep"
    /\ "agent" \in Range(ran)
    /\ spike_value > 0

\* the sections a report holds
Sections(r) == {r[i].sec : i \in DOMAIN r}

\* the report is about to be handed to the agent (line 443)
HandOff == pc = "agent"

\* C11: the report handed to the agent holds the instance status of the cycle
\* on every path, and a section for each stage, skipped ones included.
C11_ReportAlwaysPopulated ==
    HandOff =>
        /\ \E i \in DOMAIN report : report[i].sec = "status" /\ report[i].v = ec2
        /\ {"cpu", "spike", "counts"} \subseteq Sections(report)
        /\ Sections(report) \cap {"culprit", "no_culprit"} # {}

\* C12: a cycle whose discovery finds no service hands over a report that
\* says so, and runs neither counting nor attribution nor the detailed fetch.
C12_EmptyDiscoveryReported ==
    NoServiceFound =>
        /\ Range(ran) \cap {"count", "attribution", "fetch"} = {}
        /\ \A i \in DOMAIN issued : issued[i].kind = "ps"
        /\ "no_sites" \in Sections(report)

\* the count commands sent so far in this cycle
CountsIssued == {i \in DOMAIN issued : issued[i].kind = "count"}

\* the windows, by name, that hold the second s
WindowsHolding(s, t) ==
    {w \in Range(WindowNames) : WindowStart(w, t) <= s /\ s <= WindowEnd(w, t)}

\* C13: the windows of the count commands are built from spike_time as
\* [t - 10 min, t - 1 s], [t, t + 1 min - 1 s], [t + 1 min, t + 11 min]; each
\* borders the next by one second, and every second of [t - 10 min, t + 11 min]
\* lies in exactly one of them.
C13_WindowsConstruction ==
    /\ \A i \in CountsIssued :
          \E w \in Range(WindowNames) :
              /\ issued[i].start_time = WindowStart(w, spike_time)
              /\ issued[i].end_time = WindowEnd(w, spike_time)
    /\ pc = "count_send" =>
          LET t == spike_time
          IN  /\ WindowStart("before", t) = t - 600
              /\ WindowEnd("before", t) = WindowStart("spike", t) - 1
              /\ WindowStart("spike", t) = t
              /\ WindowEnd("spike", t) = WindowStart("spike", t) + 60 - 1
              /\ WindowStart("after", t) = WindowEnd("spike", t) + 1
              /\ WindowEnd("after", t) = t + 660
              /\ \A s \in (t - 600)..(t + 660) : Cardinality(WindowsHolding(s, t)) = 1
              /\ \A s \in {t - 601, t + 661} : WindowsHolding(s, t) = {}

\* the three commands of a site have been sent for a spike near midnight
C13_Witness ==
    /\ spike_time = MonthEnd
    /\ \E i \in CountsIssued : issued[i].start_time = spike_time - 600
    /\ \E i \in CountsIssued : issued[i].start_time = spike_time
    /\ \E i \in CountsIssued : issued[i].end_time = spike_time + 660

\* an exception is raised: inside a stage (caught there), or one that reaches
\* the handler of line 447
StageRaises == raised = "" /\ raised' # ""
CycleRaises == pc = "status" /\ pc' = "sleep"

\* C14: an exception raised in a cycle is caught in the loop: after one caught
\* in a stage the cycle goes on at that stage's return, one that reaches the
\* handler of the loop ends the cycle at the sleep; the sleep is followed by
\* the start of the next cycle, and the loop always has a next step.
C14_LoopSurvivesErrors ==
    /\ [][StageRaises => pc' \in {"parse", "count_return", "fetch_return"}]_vars
    /\ [][(CycleRaises \/ pc = "agent") => pc' = "sleep"]_vars
    /\ [][pc = "sleep" => pc' = "status"]_vars
    /\ [](ENABLED Next)

\* a cycle, not the first, was cut short by an exception and the loop sleeps
C14_Witness ==
    /\ pc = "sleep"
    /\ ran = <<"status">>
    /\ report # <<>>

\* the remote command ended Failed or Cancelled, or the client raised
RemoteFailed(st, exc) == exc # "" \/ st \in {"Failed", "Cancelled"}

\* C15: when the remote command ends Failed or Cancelled, or the client
\* raises, discovery returns no service, the counter returns 0 and the fetch
\* returns a text, and each stage is left through its return only.
C15_DegradedResultNoException ==
    /\ []((pc = "parse" /\ RemoteFailed(status, raised)) => processes = <<>>)
    /\ [][(pc = "parse" /\ RemoteFailed(status, raised))
             => (all_sites' = <<>> /\ pc' = "check_sites")]_vars
    /\ [][(pc = "count_return" /\ RemoteFailed(output.Status, raised))
             => (Cell(log_counts', CountCell[1], CountCell[2]) = 0
                 /\ pc' \in {"count_send", "scan"})]_vars
    /\ [][(pc = "fetch_return" /\ RemoteFailed(output.Status, raised))
             => (logs_from_Spike' \in {NoLogsFound, ErrorFetchingLogs}
                 /\ pc' = "agent")]_vars
    /\ [][(pc \in {"disc_send", "disc_poll"}) => pc' \in {"disc_poll", "parse"}]_vars
    /\ [][(pc \in {"count_send", "count_read"}) => pc' \in {"count_read", "count_return"}]_vars
    /\ [][(pc \in {"fetch_send", "fetch_read"}) => pc' \in {"fetch_read", "fetch_return"}]_vars
    /\ \A st \in {"Failed", "Cancelled"} :
          execute_ssm_command("", get_command_invocation(NoCmd, st, <<>>, <<>>)
                                      .StandardOutputContent) = NoOutputReturned
    /\ execute_ssm_command("send_command", <<>>) = ErrorExecutingCommand

\* the ps command of discovery has ended Cancelled and the function returns
C15_Witness ==
    /\ pc = "parse"
    /\ status = "Cancelled"
    /\ raised = ""
    /\ processes = <<>>

\* the lines of the log the fetch command selects
FetchSelection == AwkPrint(log_file, Strftime(cmd.start_time), Strftime(cmd.end_time),
                           FetchWidth)

\* C16 as stated: fetch_logs_window returns the selected lines when there are
\* any, and the placeholder 'No logs found in the window.' when nothing is
\* selected and when the remote read fails (raises, or no Success status).
C16_FetchPlaceholderOnFailure ==
    pc = "fetch_return" =>
        LET result == FetchResult(raised, output.StandardOutputContent)
        IN  IF raised # "" \/ output.Status # "Success"
            THEN result = NoLogsFound
            ELSE result = (IF FetchSelection # <<>> THEN FetchSelection ELSE NoLogsFound)

\* C16 amended: fetch_logs_window returns the output it read when that is not
\* empty, the placeholder when it is empty (nothing selected, or no Success
\* status), and the text 'Error fetching logs: ...' when the client raises.
C16_FetchResultAmended ==
    [][pc = "fetch_return" =>
          /\ raised # "" => logs_from_Spike' = ErrorFetchingLogs
          /\ (raised = "" /\ output.Status = "Success" /\ FetchSelection # <<>>)
                => logs_from_Spike' = FetchSelection
          /\ (raised = "" /\ output.Status = "Success" /\ FetchSelection = <<>>)
                => logs_from_Spike' = NoLogsFound
          /\ (raised = "" /\ output.Status # "Success")
                => logs_from_Spike' = NoLogsFound]_vars

\* the client raised in fetch_logs_window
C16_Witness ==
    /\ pc = "fetch_return"
    /\ raised # ""
    /\ FetchResult(raised, output.StandardOutputContent) = ErrorFetchingLogs

\* the stages in the order of the monitoring loop
StageOrder == <<"status", "metric", "detect", "discovery", "count", "attribution",
                "fetch", "agent">>

StageIndex(stage) == CHOOSE k \in DOMAIN StageOrder : StageOrder[k] = stage

\* the stage that sends commands of a kind
StageOfKind(kind) ==
    CASE kind = "ps" -> "discovery" [] kind = "count" -> "count" [] OTHER -> "fetch"

\* the stages of this cycle started in the order of the loop, none twice, and
\* a command in flight belongs to the stage started last
StagesInOrder ==
    /\ \A i \in DOMAIN ran : \A j \in DOMAIN ran :
          i < j => StageIndex(ran[i]) < StageIndex(ran[j])
    /\ \A k \in 2..Len(ran) :
          ran[k] \in {"detect", "discovery", "count", "attribution"}
             => ran[k - 1] = StageOrder[StageIndex(ran[k]) - 1]
    /\ cmd # NoCmd => ran[Len(ran)] = StageOfKind(cmd.kind)

\* the scan named a service and that service has a log path
ServiceWithLogPath == Spike_site # None /\ FirstLogPath(all_sites, Spike_site) # <<>>

\* C17: the stages of a cycle run in the order metric fetch, spike detection,
\* discovery, counting, attribution, detailed fetch, hand-off, one at a time,
\* and the detailed fetch runs exactly when attribution named a service that
\* has a log path.
C17_StagesInOrderFetchIffAttributed ==
    /\ StagesInOrder
    /\ ("attribution" \in Range(ran) /\ "agent" \in Range(ran))
          => ("fetch" \in Range(ran) <=> ServiceWithLogPath)
    /\ "fetch" \in Range(ran) => "attribution" \in Range(ran)

\* C18: when counting is over, one count command has been sent for each pair
\* of a distinct service and a window, 3 x (number of distinct services) in
\* all, and log_counts holds one entry per service, also when several lines of
\* the process listing name the same service.
C18_OneCountPerServiceAndWindow ==
    "attribution" \in Range(ran) =>
        /\ Cardinality(CountsIssued) = 3 * Cardinality(SiteNames)
        /\ \A i \in CountsIssued : \A j \in CountsIssued :
              i # j => issued[i] # issued[j]
        /\ Len(log_counts.keys) = Cardinality(SiteNames)
        /\ Range(log_counts.keys) = SiteNames

\* the report lines of the scan, from the counts of this cycle
MetricsOf(counts) ==
    [i \in DOMAIN counts.keys |-> ReportLine(counts.keys[i], counts.vals[counts.keys[i]])]

\* the report a cycle builds from its own status, metric series, services,
\* counts and logs, by the stages it ran
OwnReport ==
    IF "attribution" \notin Range(ran) THEN <<>>
    ELSE BaseReport(ec2, cpu_per_minute, MaxByCpu(cpu_per_minute).Timestamp,
                    MaxByCpu(cpu_per_minute).CPU, MetricsOf(log_counts))
         \o (IF "fetch" \in Range(ran)
             THEN <<[sec |-> "culprit", v |-> <<Spike_site, max_spike>>],
                    [sec |-> "logs", v |-> <<Spike_site, logs_from_Spike>>]>>
             ELSE <<[sec |-> "no_culprit", v |-> <<>>]>>)

\* C19: the report handed to the agent is built from values the stages of
\* the same cycle produced: it is empty unless this cycle ran every stage up
\* to attribution, and then holds this cycle's status, series, spike, counts
\* of this cycle's services, and attribution.
C19_ReportFromOwnCycle ==
    HandOff =>
        /\ report = OwnReport
        /\ "attribution" \in Range(ran) =>
              /\ {"status", "metric", "detect", "discovery", "count"} \subseteq Range(ran)
              /\ log_counts.keys = DictKeys(all_sites)
              /\ "fetch" \in Range(ran) =>
                    (Spike_site \in SiteNames /\ max_spike = MagnitudeOf(Spike_site))

\* a cycle without metric data follows one that built a full report
C19_Witness ==
    /\ HandOff
    /\ "attribution" \notin Range(ran)
    /\ cpu_per_minute = <<>>
    /\ report_metrics # <<>>
    /\ report = <<>>

\* the cycle that ran last is over: its agent call has returned or raised, or
\* an exception cut it at its first statement
CycleOver == "agent" \in Range(ran) \/ ran = <<"status">>

\* C20: a cycle starts only from the sleep that follows the end of the cycle
\* before it, agent call included, with no command of that cycle in flight.
C20_CyclesDoNotOverlap ==
    /\ [][pc' = "status" => pc \in {"sleep", "status"}]_vars
    /\ []((pc = "sleep") => (CycleOver /\ cmd = NoCmd))
    /\ []((pc = "status") => ((ran = <<>> \/ CycleOver) /\ cmd = NoCmd))
    /\ [][(pc = "status" /\ pc' # "status") => (ran' = <<"status">> /\ issued' = <<>>)]_vars

\* the loop is about to start a cycle after one that went through the
\* detailed fetch and the agent call
C20_Witness ==
    /\ pc = "status"
    /\ "fetch" \in Range(ran)
    /\ "agent" \in Range(ran)

\* the calls of the agent in this cycle
AgentCalls == {i \in DOMAIN ran : ran[i] = "agent"}

\* the cycle has ended and the loop is at the sleep of line 451
CycleEnded == pc = "sleep"

\* C21: every cycle calls the agent exactly once, as its last stage, after
\* all the earlier stages, also without metric data or services.
C21_AgentCalledOncePerCycle ==
    CycleEnded => (Cardinality(AgentCalls) = 1 /\ ran[Len(ran)] = "agent")

\* the step of the loop that calls get_ec2_status (line 317)
StatusStep == pc = "status" /\ pc' # "status"

\* C22: get_ec2_status never raises: the loop goes on to the metric stage
\* with a status, which is 'unknown' for the three fields when a lookup
\* failed.
C22_StatusNeverRaises ==
    [][StatusStep =>
          /\ pc' = "metric"
          /\ status_response'.raises => ec2' = <<"unknown", "unknown", "unknown">>]_vars

\* the step of the loop that calls get_cpu_per_minute (line 321)
MetricStep == pc = "metric" /\ pc' # "metric"

\* the list is in ascending order of Timestamp
AscendingByTimestamp(points) ==
    \A i \in DOMAIN points : \A j \in DOMAIN points :
        i < j => points[i].Timestamp <= points[j].Timestamp

\* the list holds the delivered datapoints, each once, and nothing else
ExactlyDelivered(points, delivered) ==
    /\ Len(points) = Len(delivered)
    /\ \E f \in [DOMAIN delivered -> DOMAIN points] :
          /\ \A i \in DOMAIN delivered : \A j \in DOMAIN delivered :
                i # j => f[i] # f[j]
          /\ \A i \in DOMAIN delivered :
                /\ points[f[i]].Timestamp = delivered[i].Timestamp
                /\ points[f[i]].CPU = delivered[i].Average

\* C23: whatever the order of delivery, get_cpu_per_minute returns the
\* delivered datapoints, each once, in ascending order of Timestamp; it
\* returns the empty list when there is no datapoint or the call raises, and
\* the loop goes on at line 323 in every case.
C23_MetricSortedAndComplete ==
    [][MetricStep =>
          /\ pc' = "check_cpu"
          /\ metric_response'.raises => cpu_per_minute' = <<>>
          /\ ~metric_response'.raises =>
                /\ AscendingByTimestamp(cpu_per_minute')
                /\ ExactlyDelivered(cpu_per_minute', metric_response'.Datapoints)
                /\ metric_response'.Datapoints = <<>> => cpu_per_minute' = <<>>]_vars

\* two datapoints delivered latest first have been returned earliest first
C23_Witness ==
    /\ pc = "check_cpu"
    /\ ~metric_response.raises
    /\ Len(metric_response.Datapoints) = 2
    /\ metric_response.Datapoints[1].Timestamp > metric_response.Datapoints[2].Timestamp
    /\ Len(cpu_per_minute) = 2
    /\ cpu_per_minute[1].Timestamp = metric_response.Datapoints[2].Timestamp
    /\ cpu_per_minute[1].CPU = metric_response.Datapoints[2].Average
    /\ cpu_per_minute[2].Timestamp = metric_response.Datapoints[1].Timestamp

\* the step in which get_all_gunicorn_sites parses the listing (lines 192-210)
ParseStep == pc = "parse" /\ pc' # "parse"

\* C24: the log path of a descriptor is the captured path itself when that
\* starts with '/', and /var/www/<site_name>/logs/<captured> otherwise; every
\* log path of a descriptor is absolute.
C24_LogPathResolved ==
    [][ParseStep =>
          \A i \in DOMAIN all_sites' :
              /\ all_sites'[i].access_log_path[1] = "/"
              /\ \E k \in DOMAIN processes :
                    /\ processes[k].sock = <<all_sites'[i].site_name>>
                    /\ processes[k].logfile # <<>>
                    /\ IF processes[k].logfile[1] = "/"
                       THEN all_sites'[i].access_log_path = processes[k].logfile
                       ELSE all_sites'[i].access_log_path =
                               <<"/", "var", "www", all_sites'[i].site_name, "logs">>
                                   \o processes[k].logfile]_vars

\* discovery has returned a descriptor whose path was relative in the listing
\* and one whose path was absolute
C24_Witness ==
    /\ pc = "check_sites"
    /\ \E i \in DOMAIN all_sites :
          all_sites[i].access_log_path = <<"/", "var", "www", "shop", "logs", "access.log">>
    /\ \E i \in DOMAIN all_sites : all_sites[i].access_log_path = <<"/", "srv", "blog.log">>

\* the lines of the listing that hold both a socket under /var/www and an
\* access log, in the order of the listing
MatchingLines(lines) ==
    SelectSeq(lines, LAMBDA line : line.sock # <<>> /\ line.logfile # <<>>)

\* the path ends with the given segments
EndsWith(path, tail) ==
    /\ Len(tail) <= Len(path)
    /\ SubSeq(path, Len(path) - Len(tail) + 1, Len(path)) = tail

\* C25: the descriptors are fixed by the listing: one per matching line, in
\* the order of the matching lines, named after that line's socket
\* and ending with that line's captured path; a line that does not match
\* contributes nothing.
C25_DescriptorsFollowListing ==
    [][ParseStep =>
          LET matching == MatchingLines(processes)
          IN  /\ Len(all_sites') = Len(matching)
              /\ \A i \in DOMAIN matching :
                    /\ all_sites'[i].site_name = matching[i].sock[1]
                    /\ EndsWith(all_sites'[i].access_log_path, matching[i].logfile)]_vars

\* two services have been found, in the order of their lines
C25_Witness ==
    /\ pc = "check_sites"
    /\ Len(all_sites) = 2
    /\ all_sites[1].site_name = "blog"
    /\ all_sites[2].site_name = "shop"

\* C26: in every state each count of log_counts is at least 0, and so are the
\* counts and the magnitude of each report line and max_spike.
C26_CountsAndMagnitudeNonNegative ==
    /\ \A n \in Range(log_counts.keys) : \A w \in Range(WindowNames) :
          Cell(log_counts, n, w) >= 0
    /\ \A i \in DOMAIN report_metrics :
          /\ report_metrics[i].before >= 0
          /\ report_metrics[i].spike >= 0
          /\ report_metrics[i].after >= 0
          /\ report_metrics[i].magnitude >= 0
    /\ max_spike >= 0

\* the scan has processed a service whose requests stopped after the spike
\* minute: fewer requests after than before, and a positive magnitude
C26_Witness ==
    /\ pc = "branch"
    /\ \E i \in DOMAIN report_metrics :
          /\ report_metrics[i].after < report_metrics[i].before
          /\ report_metrics[i].magnitude > 0
    /\ max_spike > 0

\* the place of the count command issued[j] among the count operations of
\* the three loops of lines 257-267
OpIndex(j) == Cardinality({m \in CountsIssued : m <= j})

\* the count commands whose results log_counts holds for the service name
\* when counting is over: for each window the last one sent for that name
CountsKept(name) ==
    {j \in CountsIssued :
        /\ OpSite(OpIndex(j), all_sites).site_name = name
        /\ \A m \in CountsIssued :
              (/\ m > j
               /\ OpSite(OpIndex(m), all_sites).site_name = name
               /\ OpWindow(OpIndex(m), all_sites) = OpWindow(OpIndex(j), all_sites))
                  => FALSE}

\* C27: the detailed fetch of a cycle reads the log path that the counts kept
\* for the attributed service were taken from, also when several descriptors
\* carry the name of that service with different log paths.
C27_FetchPathIsCountedPath ==
    \A i \in FetchesIssued :
        \A j \in CountsKept(Spike_site) : issued[j].path = issued[i].path

\* the services the scan of lines 376-402 has processed so far, in order
Processed == SubSeq(log_counts.keys, 1, scan_i - 1)

\* the largest of the three pairwise absolute differences of the counts of
\* the i-th processed service
ProcessedMagnitude(i) ==
    LET c == log_counts.vals[Processed[i]]
        d1 == IF c.spike >= c.before THEN c.spike - c.before ELSE c.before - c.spike
        d2 == IF c.after >= c.spike THEN c.after - c.spike ELSE c.spike - c.after
        d3 == IF c.after >= c.before THEN c.after - c.before ELSE c.before - c.after
    IN  IF d1 >= d2 /\ d1 >= d3 THEN d1 ELSE IF d2 >= d3 THEN d2 ELSE d3

\* the scan is between two services, or before the first, or after the last
Scanning == pc = "scan"

\* C28: during the scan max_spike is the largest magnitude of the services
\* processed so far (0 when there is none), Spike_site is None exactly when
\* max_spike is 0 and otherwise the first processed service that has the
\* magnitude max_spike, and a step of the scan never lowers max_spike.
C28_ScanInvariant ==
    /\ [](Scanning =>
            /\ \A i \in DOMAIN Processed : ProcessedMagnitude(i) <= max_spike
            /\ max_spike = 0 \/ \E i \in DOMAIN Processed : ProcessedMagnitude(i) = max_spike
            /\ Spike_site = None <=> max_spike = 0
            /\ max_spike > 0 =>
                  \E i \in DOMAIN Processed :
                      /\ Processed[i] = Spike_site
                      /\ ProcessedMagnitude(i) = max_spike
                      /\ \A j \in 1..(i - 1) : ProcessedMagnitude(j) < max_spike)
    /\ [][(Scanning /\ pc' = "scan") => max_spike' >= max_spike]_vars

\* the scan has processed a service of magnitude 2 and then one of magnitude
\* 1, and keeps the first
C28_Witness ==
    /\ Scanning
    /\ Len(Processed) = 2
    /\ ProcessedMagnitude(1) = 2
    /\ ProcessedMagnitude(2) = 1
    /\ max_spike = 2
    /\ Spike_site = Processed[1]

\* C30: when the lookup of the instance succeeds and the list of health
\* statuses is empty, get_ec2_status returns the state of the instance with
\* 'unknown' for the two health fields; it returns 'unknown' for the three
\* fields only when a lookup raised.
C30_PartialStatus ==
    [][(StatusStep /\ pc' = "metric") =>
          /\ (~status_response'.raises /\ status_response'.InstanceStatuses = <<>>)
                => ec2' = <<status_response'.State, "unknown", "unknown">>
          /\ ec2' = <<"unknown", "unknown", "unknown">> => status_response'.raises]_vars

\* a stopped instance without health statuses has been reported as stopped
C30_Witness ==
    /\ pc = "metric"
    /\ ~status_response.raises
    /\ status_response.InstanceStatuses = <<>>
    /\ ec2 = <<"stopped", "unknown", "unknown">>

\* the threads started by the call of trigger_agent for request r
RunsOf(r) == {i \in DOMAIN threads : threads[i].request = r}

\* C29: each POST to /trigger-agent starts exactly one run of the agent on a
\* thread of its own and is answered 'agent triggered'; the answer does not
\* wait for the run; an exception in one run is caught in that run and
\* changes neither another run nor a call of the handler.
C29_OneRunPerPost ==
    /\ [](\A r \in Requests :
             /\ Cardinality(RunsOf(r)) <= 1
             /\ handlers[r].at = "done" =>
                   /\ handlers[r].response = AgentTriggered
                   /\ Cardinality(RunsOf(r)) = 1
             /\ handlers[r].at = "return" => ENABLED ReturnTriggered(r))
    /\ [][\A i \in DOMAIN threads :
             (threads[i].at = "agent" /\ threads'[i].at = "except") =>
                 /\ handlers' = handlers
                 /\ \A j \in DOMAIN threads : j # i => threads'[j] = threads[j]]_vars
====
